---- MODULE Spec2Model ----
(***************************************************************************)
(* Model of system-deps (src/src/lib.rs): Config::probe and the steps it   *)
(* is made of (probe_pkg_config, override_from_flags, gen_flags), the      *)
(* build-internal registry and the environment accessor.                   *)
(*                                                                         *)
(* Conventions                                                             *)
(*  - Option<T> is a sequence of length 0 (None) or 1 (Some(v)).           *)
(*  - The text of an environment value, a library name to link, a path:    *)
(*    a sequence of one-character strings, so that splitting is computed.  *)
(*  - Manifest keys, library names, feature names and version strings are  *)
(*    TLA+ strings; the conversions applied to them are tables.            *)
(***************************************************************************)
EXTENDS Integers, Sequences, FiniteSets, TLC

VARIABLES
    env,              \* Config.env: the variables that are set, name -> text
    deps,             \* metadata.deps, the manifest entries in order
    hooks,            \* the names the build script registers a closure under
    build_internals,  \* Config.build_internals: the names holding a closure
    pc,               \* position in Config::probe
    idx,              \* index of the next manifest entry of the loop
    libraries,        \* Dependencies.libs: key -> Library
    iter_order,       \* the iteration order of Dependencies.libs (HashMap)
    flags,            \* BuildFlags built by gen_flags
    stdout,           \* lines printed by probe
    result,           \* outcome of probe
    log               \* history: one record per loop iteration

vars == <<env, deps, hooks, build_internals, pc, idx, libraries, iter_order, flags, stdout, result, log>>

------------------------------------------------------------------------------
\* Bounds of the model

MaxDeps == 2

------------------------------------------------------------------------------
\* Option

None == <<>>

Some(v) == <<v>>

IsSome(o) == Len(o) > 0

Unwrap(o) == o[1]

UnwrapOr(o, d) == IF Len(o) > 0 THEN o[1] ELSE d

------------------------------------------------------------------------------
\* Text helpers

RECURSIVE SplitOn(_, _)
\* str::split(sep) / env::split_paths: the pieces between separators, empty
\* pieces kept; the empty text gives one empty piece.
SplitOn(s, sep) ==
    IF \A i \in 1..Len(s) : s[i] # sep
    THEN <<s>>
    ELSE LET i == CHOOSE j \in 1..Len(s) : s[j] = sep /\ \A k \in 1..(j-1) : s[k] # sep
         IN  <<SubSeq(s, 1, i-1)>> \o SplitOn(SubSeq(s, i+1, Len(s)), sep)

split_string(value) == IF value # <<>> THEN SplitOn(value, " ") ELSE <<>>

split_paths(value) == IF value # <<>> THEN SplitOn(value, ":") ELSE <<>>

RECURSIVE JoinWith(_, _)
JoinWith(ps, sep) ==
    IF Len(ps) = 0 THEN <<>>
    ELSE IF Len(ps) = 1 THEN ps[1]
    ELSE ps[1] \o <<sep>> \o JoinWith(Tail(ps), sep)

\* std::env::join_paths: an error when a path holds the separator
join_paths(ps) ==
    IF \E i \in 1..Len(ps) : \E j \in 1..Len(ps[i]) : ps[i][j] = ":"
    THEN None
    ELSE Some(JoinWith(ps, ":"))

------------------------------------------------------------------------------
\* Names: manifest keys, library names, features

\* heck::ShoutySnakeCase on a manifest key (EnvVariable's Display)
to_shouty_snake_case(lib) ==
    CASE lib = "a" -> "A"
      [] lib = "b-c" -> "B_C"
      [] lib = "b_c" -> "B_C"
      [] lib = "n" -> "N"
      [] OTHER -> lib

\* heck::SnakeCase on a manifest key (the presence marker)
to_snake_case(lib) ==
    CASE lib = "b-c" -> "b_c"
      [] OTHER -> lib

\* feature.to_uppercase().replace('-', "_")
feature_upper(feature) ==
    CASE feature = "f" -> "F"
      [] feature = "v2" -> "V2"
      [] feature = "v3" -> "V3"
      [] OTHER -> feature

------------------------------------------------------------------------------
\* EnvVariable and the environment accessor

Suffixes == <<"LIB", "LIB_FRAMEWORK", "SEARCH_NATIVE", "SEARCH_FRAMEWORK", "INCLUDE", "NO_PKG_CONFIG", "BUILD_INTERNAL">>

\* Display of an EnvVariable carrying a library key
EnvVariable(suffix, lib) == <<"SYSTEM_DEPS", to_shouty_snake_case(lib), suffix>>

new_lib(lib) == EnvVariable("LIB", lib)

new_lib_framework(lib) == EnvVariable("LIB_FRAMEWORK", lib)

new_search_native(lib) == EnvVariable("SEARCH_NATIVE", lib)

new_search_framework(lib) == EnvVariable("SEARCH_FRAMEWORK", lib)

new_include(lib) == EnvVariable("INCLUDE", lib)

new_no_pkg_config(lib) == EnvVariable("NO_PKG_CONFIG", lib)

\* Display of EnvVariable::BuildInternal(Some(lib)) and of BuildInternal(None)
new_build_internal(lib) ==
    IF IsSome(lib) THEN EnvVariable("BUILD_INTERNAL", Unwrap(lib))
    ELSE <<"SYSTEM_DEPS", "BUILD_INTERNAL">>

FeatureVar(feature) == <<"CARGO_FEATURE", feature_upper(feature)>>

TargetVar == <<"TARGET">>

ManifestDirVar == <<"CARGO_MANIFEST_DIR">>

\* EnvVariablesExt::get
env_get(e, var) == IF var \in DOMAIN e THEN Some(e[var]) ELSE None

\* EnvVariablesExt::contains
env_contains(e, var) == IsSome(env_get(e, var))

has_feature(e, feature) == env_contains(e, FeatureVar(feature))

------------------------------------------------------------------------------
\* BuildInternal

Auto == <<"a", "u", "t", "o">>

Always == <<"a", "l", "w", "a", "y", "s">>

Never == <<"n", "e", "v", "e", "r">>

\* BuildInternal::from_str (strum, snake_case): None stands for Err
BuildInternal_from_str(s) ==
    IF s = Auto THEN Some("Auto")
    ELSE IF s = Always THEN Some("Always")
    ELSE IF s = Never THEN Some("Never")
    ELSE None

BuildInternal_default == "Never"

------------------------------------------------------------------------------
\* Errors. One record shape for all, unused fields left empty.

NoErr == [tag |-> "", name |-> "", version |-> "", required |-> "", var |-> <<>>, value |-> <<>>]

ErrPkgConfig(name) == [NoErr EXCEPT !.tag = "PkgConfig", !.name = name]

ErrBuildInternalClosureError(name) == [NoErr EXCEPT !.tag = "BuildInternalClosureError", !.name = name]

ErrInvalidMetadata(key) == [NoErr EXCEPT !.tag = "InvalidMetadata", !.name = key]

ErrMissingLib(name) == [NoErr EXCEPT !.tag = "MissingLib", !.name = name]

ErrBuildInternalInvalid(var, s) == [NoErr EXCEPT !.tag = "BuildInternalInvalid", !.var = var, !.value = s]

ErrBuildInternalNoClosure(name, version) == [NoErr EXCEPT !.tag = "BuildInternalNoClosure", !.name = name, !.version = version]

ErrBuildInternalWrongVersion(name, actual, required) == [NoErr EXCEPT !.tag = "BuildInternalWrongVersion", !.name = name, !.version = actual, !.required = required]

ErrUnsupportedCfg(original) == [NoErr EXCEPT !.tag = "UnsupportedCfg", !.name = original]

\* a panic (expect / unwrap) is kept apart from the Error values
ErrPanic(msg) == [NoErr EXCEPT !.tag = "panic", !.name = msg]

\* Result<T, Error>
Ok(v) == [ok |-> TRUE, val |-> v, err |-> NoErr]

Err(e) == [ok |-> FALSE, val |-> <<>>, err |-> e]

------------------------------------------------------------------------------
\* Config::get_build_internal_env_var / get_build_internal_status

\* the match of get_build_internal_env_var on the variable's value s
parse_build_internal(var, s) ==
    IF IsSome(s)
    THEN IF IsSome(BuildInternal_from_str(Unwrap(s)))
         THEN Ok(BuildInternal_from_str(Unwrap(s)))
         ELSE Err(ErrBuildInternalInvalid(var, Unwrap(s)))
    ELSE Ok(None)

get_build_internal_env_var(e, var) == parse_build_internal(var, env_get(e, var))

\* mutant: the global variable decides when it is set
status_global_first(k, g) ==
    IF ~g.ok THEN Err(g.err)
    ELSE IF IsSome(g.val) THEN Ok(Unwrap(g.val))
    ELSE IF ~k.ok THEN Err(k.err)
    ELSE Ok(UnwrapOr(k.val, BuildInternal_default))

\* the match of get_build_internal_status: k is the outcome for the per-key
\* variable, g the outcome for the global one, looked at only when k is None
status_of(k, g) ==
    IF ~k.ok THEN Err(k.err)
    ELSE IF IsSome(k.val) THEN Ok(Unwrap(k.val))
    ELSE IF ~g.ok THEN Err(g.err)
    ELSE Ok(UnwrapOr(g.val, BuildInternal_default))

get_build_internal_status(e, name) ==
    status_of(get_build_internal_env_var(e, new_build_internal(Some(name))),
              get_build_internal_env_var(e, new_build_internal(None)))

------------------------------------------------------------------------------
\* version_compare::VersionCompare::compare

\* the parts of a version string; None when the string does not parse
VersionParts(v) ==
    CASE v = "" -> Some(<<>>)
      [] v = "1" -> Some(<<1>>)
      [] v = "2" -> Some(<<2>>)
      [] v = "2.0" -> Some(<<2, 0>>)
      [] v = "3" -> Some(<<3>>)
      [] OTHER -> None

PartAt(ps, i) == IF i <= Len(ps) THEN ps[i] ELSE 0

\* the order of two parsed versions, missing parts counting as 0
compare_parts(x, y, n) ==
    IF \A i \in 1..n : PartAt(x, i) = PartAt(y, i) THEN "Eq"
    ELSE IF \E i \in 1..n : PartAt(x, i) < PartAt(y, i) /\ \A k \in 1..(i-1) : PartAt(x, k) = PartAt(y, k)
    THEN "Lt"
    ELSE "Gt"

\* "Lt" | "Eq" | "Gt", or None for Err(())
VersionCompare(a, b) ==
    IF ~IsSome(VersionParts(a)) \/ ~IsSome(VersionParts(b)) THEN None
    ELSE Some(compare_parts(Unwrap(VersionParts(a)), Unwrap(VersionParts(b)),
                            Len(Unwrap(VersionParts(a))) + Len(Unwrap(VersionParts(b)))))

------------------------------------------------------------------------------
\* Target configuration expressions (cfg_expr) and Config::check_cfg

LinuxTriple == <<"x", "-", "l">>

MacosTriple == <<"x", "-", "m">>

\* cfg_expr::targets::get_builtin_target_by_triple
get_builtin_target_by_triple(t) ==
    IF t = LinuxTriple THEN Some([os |-> "linux"])
    ELSE IF t = MacosTriple THEN Some([os |-> "macos"])
    ELSE None

CfgTargetOs(os) == [original |-> os, op |-> "target_os", val |-> os, args |-> <<>>]

\* a predicate that is not Predicate::Target
CfgOther(text) == [original |-> text, op |-> "other", val |-> "", args |-> <<>>]

CfgNot(text, x) == [original |-> text, op |-> "not", val |-> "", args |-> <<x>>]

CfgAll(text, x, y) == [original |-> text, op |-> "all", val |-> "", args |-> <<x, y>>]

CfgAny(text, x, y) == [original |-> text, op |-> "any", val |-> "", args |-> <<x, y>>]

RECURSIVE cfg_eval(_, _)
\* Expression::eval over Option<bool>: Some(TRUE), Some(FALSE) or None
cfg_eval(x, target) ==
    CASE x.op = "target_os" -> Some(x.val = target.os)
      [] x.op = "other" -> None
      [] x.op = "not" ->
            LET a == cfg_eval(x.args[1], target)
            IN  IF IsSome(a) THEN Some(~Unwrap(a)) ELSE None
      [] x.op = "all" ->
            LET rs == {cfg_eval(x.args[i], target) : i \in 1..Len(x.args)}
            IN  IF Some(FALSE) \in rs THEN Some(FALSE)
                ELSE IF None \in rs THEN None
                ELSE Some(TRUE)
      [] x.op = "any" ->
            LET rs == {cfg_eval(x.args[i], target) : i \in 1..Len(x.args)}
            IN  IF Some(TRUE) \in rs THEN Some(TRUE)
                ELSE IF None \in rs THEN None
                ELSE Some(FALSE)

\* mutant: an expression that cannot be interpreted counts as not matching
cfg_result_lenient(cfg, res) == Ok(UnwrapOr(res, FALSE))

\* res.ok_or_else(|| Error::UnsupportedCfg(..))
cfg_result(cfg, res) == IF IsSome(res) THEN Ok(Unwrap(res)) ELSE Err(ErrUnsupportedCfg(cfg.original))

check_cfg_target(cfg, target) ==
    IF ~IsSome(target) THEN Err(ErrPanic("Invalid TARGET"))
    ELSE cfg_result(cfg, cfg_eval(cfg, Unwrap(target)))

check_cfg_triple(cfg, t) ==
    IF ~IsSome(t) THEN Err(ErrPanic("no TARGET env variable defined"))
    ELSE check_cfg_target(cfg, get_builtin_target_by_triple(Unwrap(t)))

check_cfg(e, cfg) == check_cfg_triple(cfg, env_get(e, TargetVar))

------------------------------------------------------------------------------
\* Library

PkgConfig == "PkgConfig"

EnvVariables == "EnvVariables"

\* what pkg-config reports for a library it finds
PkgVersion == "3"

pkg_config_Library == [libs |-> << <<"p">> >>, link_paths |-> << <<"l">> >>, frameworks |-> <<>>, framework_paths |-> <<>>, include_paths |-> << <<"i">> >>, defines |-> {}, version |-> PkgVersion]

\* what a build-internal closure has built, at version v
built_Library(v) == [libs |-> << <<"b">> >>, link_paths |-> << <<"o">> >>, frameworks |-> <<>>, framework_paths |-> <<>>, include_paths |-> << <<"o">> >>, defines |-> {<<"BUILT", None>>}, version |-> v]

\* a line pkg-config prints for cargo while it probes
MetadataLine(kind, text) == [kind |-> kind, text |-> text, var |-> <<>>]

\* .cargo_metadata(true), line 631: what a successful probe prints for the
\* library it found, search paths and libraries
cargo_metadata(l) ==
    [n \in 1..Len(l.link_paths) |-> MetadataLine("rustc-link-search=native", l.link_paths[n])]
    \o [n \in 1..Len(l.libs) |-> MetadataLine("rustc-link-lib", l.libs[n])]

from_pkg_config(name, l) ==
    [name |-> name, source |-> PkgConfig, libs |-> l.libs, link_paths |-> l.link_paths,
     include_paths |-> l.include_paths, frameworks |-> l.frameworks,
     framework_paths |-> l.framework_paths, defines |-> l.defines, version |-> l.version]

from_env_variables(name) ==
    [name |-> name, source |-> EnvVariables, libs |-> <<>>, link_paths |-> <<>>,
     include_paths |-> <<>>, frameworks |-> <<>>, framework_paths |-> <<>>,
     defines |-> {}, version |-> ""]

NoLibrary == from_pkg_config("", [libs |-> <<>>, link_paths |-> <<>>, frameworks |-> <<>>, framework_paths |-> <<>>, include_paths |-> <<>>, defines |-> {}, version |-> ""])

------------------------------------------------------------------------------
\* The outside world, chosen when it is called

\* pkg_config::Config::probe: found or not
PkgOutcomes == {[ok |-> TRUE], [ok |-> FALSE]}

\* a build-internal closure: fails, or has built some version
ClosureVersions == {"1", "3", "x"}

ClosureOutcomes == {[ok |-> FALSE, version |-> ""]} \cup {[ok |-> TRUE, version |-> v] : v \in ClosureVersions}

\* the closure registered for a library, called with (lib, version): it hands
\* back what it built under the name it was asked for
closure_call(cl, lib, version) ==
    IF cl.ok THEN Ok(from_pkg_config(lib, built_Library(cl.version)))
    ELSE Err(NoErr)

------------------------------------------------------------------------------
\* Manifest entries (metadata::Dependency) and the version picked for one

\* the library name an entry defaults to: its key, separators normalized
normalize_key(key) ==
    CASE key = "b-c" -> "b_c"
      [] OTHER -> key

\* Dependency::lib_name
lib_name_of(dep) == IF IsSome(dep.name) THEN Unwrap(dep.name) ELSE normalize_key(dep.key)

\* x sorts before or with y (versions that parse)
override_le(x, y) == VersionCompare(x.version, y.version) # Some("Gt")

\* x put into the sorted sequence behind the n elements not greater than it
insert_at(init, x, n) == SubSeq(init, 1, n) \o <<x>> \o SubSeq(init, n + 1, Len(init))

insert_sorted(init, x) == insert_at(init, x, Cardinality({i \in 1..Len(init) : override_le(init[i], x)}))

RECURSIVE sort_by_version(_)
\* slice::sort_by with the comparison of lines 599-604, a stable sort: each
\* element goes behind the ones that are not greater than it
sort_by_version(os) ==
    IF Len(os) <= 1 THEN os
    ELSE insert_sorted(sort_by_version(SubSeq(os, 1, Len(os) - 1)), os[Len(os)])

Last(s) == s[Len(s)]

\* lines 584-588: the overrides whose feature is enabled, in declaration order
enabled_feature_overrides(e, dep) ==
    SelectSeq(dep.version_overrides, LAMBDA o : has_feature(e, o.key))

Picked(version, lib_name, optional) == [version |-> version, lib_name |-> lib_name, optional |-> optional]

\* lines 606-610
picked_override(dep, highest) ==
    Ok(Picked(Some(highest.version),
              UnwrapOr(highest.name, lib_name_of(dep)),
              UnwrapOr(highest.optional, dep.optional)))

\* mutant: the first enabled override in declaration order is taken
pick_first(dep, enabled) ==
    IF Len(enabled) > 0 THEN picked_override(dep, enabled[1])
    ELSE Ok(Picked(dep.version, lib_name_of(dep), dep.optional))

\* lines 596-614: (version, lib_name, optional) from the enabled overrides,
\* or the entry's own. A comparison that fails while sorting panics; sorting
\* compares as soon as there are two elements.
pick(dep, enabled) ==
    IF Len(enabled) > 0
    THEN IF Len(enabled) >= 2 /\ \E i \in 1..Len(enabled) : ~IsSome(VersionParts(enabled[i].version))
         THEN Err(ErrPanic("failed to compare versions"))
         ELSE picked_override(dep, Last(sort_by_version(enabled)))
    ELSE Ok(Picked(dep.version, lib_name_of(dep), dep.optional))

pick_version(e, dep) == pick(dep, enabled_feature_overrides(e, dep))

------------------------------------------------------------------------------
\* Config::call_build_internal

\* what a call did: its result, the registry it leaves, whether the closure
\* was invoked and what the closure returned
Called(res, bi, invoked, ret) == [res |-> res, bi |-> bi, invoked |-> invoked, ret |-> ret]

\* lines 682 and 687-695: r is what the closure returned, bi the registry
\* without the closure
built(bi, name, version, r) ==
    IF ~r.ok THEN Called(Err(ErrBuildInternalClosureError(name)), bi, TRUE, r)
    ELSE IF VersionCompare(r.val.version, version) = Some("Lt")
    THEN Called(Err(ErrBuildInternalWrongVersion(name, r.val.version, version)), bi, TRUE, r)
    ELSE Called(Ok(r.val), bi, TRUE, r)

\* mutant: the closure is borrowed from the registry, not moved out of it
call_build_internal_keep(bi, name, version, cl) ==
    IF name \in bi
    THEN built(bi, name, version, closure_call(cl, name, version))
    ELSE Called(Err(ErrBuildInternalNoClosure(name, version)), bi, FALSE, Err(NoErr))

call_build_internal(bi, name, version, cl) ==
    IF name \in bi
    THEN built(bi \ {name}, name, version, closure_call(cl, name, version))
    ELSE Called(Err(ErrBuildInternalNoClosure(name, version)), bi, FALSE, Err(NoErr))

------------------------------------------------------------------------------
\* One iteration of the loop of Config::probe_pkg_config

\* the record kept of an iteration; the fields are filled as the iteration
\* gets to them
NoEvent(dep, bi) ==
    [key |-> dep.key, flow |-> "", reason |-> "", err |-> NoErr, lib |-> NoLibrary,
     cfg_checked |-> FALSE, picked |-> FALSE, version |-> None, lib_name |-> "", optional |-> FALSE,
     mode_read |-> FALSE, mode |-> "", no_pkg_config |-> FALSE,
     pkg_called |-> FALSE, pkg_name |-> "", pkg_version |-> "", pkg_ok |-> FALSE,
     bi_requested |-> FALSE, bi_name |-> "", bi_version |-> "", bi_invoked |-> FALSE,
     bi_ret |-> Err(NoErr), bi_before |-> bi, bi_after |-> bi, printed |-> <<>>]

\* continue
Continue(ev, reason) == [ev EXCEPT !.flow = "continue", !.reason = reason]

\* return Err(e)
Return(ev, e) == [ev EXCEPT !.flow = "return", !.err = e]

\* libraries.add(name, library), line 650
Add(ev, lib) == [ev EXCEPT !.flow = "add", !.lib = lib]

\* self.call_build_internal(name, version)?
build_internal_done(ev, c) == IF c.res.ok THEN Add(ev, c.res.val) ELSE Return(ev, c.res.err)

AfterBuildInternal(ev, c, name, version) ==
    build_internal_done([ev EXCEPT !.bi_requested = TRUE, !.bi_name = name, !.bi_version = version,
                                   !.bi_invoked = c.invoked, !.bi_ret = c.ret, !.bi_after = c.bi], c)

\* mutant: an optional entry is skipped before the fallback is tried
after_pkg_config_optional_first(ev, bi, dep, p, build_internal, pk, cl) ==
    IF pk.ok THEN Add([ev EXCEPT !.printed = cargo_metadata(pkg_config_Library)],
                      from_pkg_config(p.lib_name, pkg_config_Library))
    ELSE IF p.optional THEN Continue(ev, "optional")
    ELSE IF build_internal = "Auto"
    THEN AfterBuildInternal(ev, call_build_internal(bi, dep.key, Unwrap(p.version), cl), dep.key, Unwrap(p.version))
    ELSE Return(ev, ErrPkgConfig(p.lib_name))

\* mutant: in auto mode the fallback is built without asking pkg-config's answer
after_pkg_config_always_build(ev, bi, dep, p, build_internal, pk, cl) ==
    IF build_internal = "Auto"
    THEN AfterBuildInternal(ev, call_build_internal(bi, dep.key, Unwrap(p.version), cl), dep.key, Unwrap(p.version))
    ELSE IF pk.ok THEN Add([ev EXCEPT !.printed = cargo_metadata(pkg_config_Library)],
                           from_pkg_config(p.lib_name, pkg_config_Library))
    ELSE IF p.optional THEN Continue(ev, "optional")
    ELSE Return(ev, ErrPkgConfig(p.lib_name))

\* lines 634-647: the match on what pkg-config answered
after_pkg_config(ev, bi, dep, p, build_internal, pk, cl) ==
    IF pk.ok THEN Add([ev EXCEPT !.printed = cargo_metadata(pkg_config_Library)],
                      from_pkg_config(p.lib_name, pkg_config_Library))
    ELSE IF build_internal = "Auto"
    THEN AfterBuildInternal(ev, call_build_internal(bi, dep.key, Unwrap(p.version), cl), dep.key, Unwrap(p.version))
    ELSE IF p.optional THEN Continue(ev, "optional")
    ELSE Return(ev, ErrPkgConfig(p.lib_name))

\* mutant: the mode is looked at before the no-discovery variable
discover_mode_first(ev, e, bi, dep, p, build_internal, pk, cl) ==
    IF build_internal = "Always"
    THEN AfterBuildInternal(ev, call_build_internal(bi, p.lib_name, Unwrap(p.version), cl), p.lib_name, Unwrap(p.version))
    ELSE IF env_contains(e, new_no_pkg_config(dep.key))
    THEN Add([ev EXCEPT !.no_pkg_config = TRUE], from_env_variables(dep.key))
    ELSE after_pkg_config([ev EXCEPT !.pkg_called = TRUE, !.pkg_name = p.lib_name,
                                     !.pkg_version = Unwrap(p.version), !.pkg_ok = pk.ok],
                          bi, dep, p, build_internal, pk, cl)

\* lines 623-648: the library of an entry whose version and mode are known
discover(ev, e, bi, dep, p, build_internal, pk, cl) ==
    IF env_contains(e, new_no_pkg_config(dep.key))
    THEN Add([ev EXCEPT !.no_pkg_config = TRUE], from_env_variables(dep.key))
    ELSE IF build_internal = "Always"
    THEN AfterBuildInternal(ev, call_build_internal(bi, p.lib_name, Unwrap(p.version), cl), p.lib_name, Unwrap(p.version))
    ELSE after_pkg_config([ev EXCEPT !.pkg_called = TRUE, !.pkg_name = p.lib_name,
                                     !.pkg_version = Unwrap(p.version), !.pkg_ok = pk.ok],
                          bi, dep, p, build_internal, pk, cl)

\* line 621: st is the outcome of get_build_internal_status
with_mode(ev, e, bi, dep, p, st, pk, cl) ==
    IF ~st.ok THEN Return(ev, st.err)
    ELSE discover([ev EXCEPT !.mode = st.val], e, bi, dep, p, st.val, pk, cl)

\* mutant: the mode is read before the version is required
with_version_mode_first(ev, e, bi, dep, p, pk, cl) ==
    IF ~get_build_internal_status(e, dep.key).ok
    THEN Return([ev EXCEPT !.mode_read = TRUE], get_build_internal_status(e, dep.key).err)
    ELSE IF ~IsSome(p.version) THEN Return([ev EXCEPT !.mode_read = TRUE], ErrInvalidMetadata(dep.key))
    ELSE with_mode([ev EXCEPT !.mode_read = TRUE], e, bi, dep, p,
                   get_build_internal_status(e, dep.key), pk, cl)

\* lines 616-621: the version is required, then the mode is read
with_version(ev, e, bi, dep, p, pk, cl) ==
    IF ~IsSome(p.version) THEN Return(ev, ErrInvalidMetadata(dep.key))
    ELSE with_mode([ev EXCEPT !.mode_read = TRUE], e, bi, dep, p,
                   get_build_internal_status(e, dep.key), pk, cl)

\* lines 596-614: pr is the outcome of the pick
with_picked(ev, e, bi, dep, pr, pk, cl) ==
    IF ~pr.ok THEN Return(ev, pr.err)
    ELSE with_version([ev EXCEPT !.picked = TRUE, !.version = pr.val.version,
                                 !.lib_name = pr.val.lib_name, !.optional = pr.val.optional],
                      e, bi, dep, pr.val, pk, cl)

\* mutant: an enabled override opens the entry's feature gate
feature_gate_overridden(ev, e, bi, dep, pk, cl) ==
    IF IsSome(dep.feature) /\ ~has_feature(e, Unwrap(dep.feature)) /\ Len(enabled_feature_overrides(e, dep)) = 0
    THEN Continue(ev, "feature")
    ELSE with_picked(ev, e, bi, dep, pick_version(e, dep), pk, cl)

\* lines 590-594: the entry's own feature gate
feature_gate(ev, e, bi, dep, pk, cl) ==
    IF IsSome(dep.feature) /\ ~has_feature(e, Unwrap(dep.feature))
    THEN Continue(ev, "feature")
    ELSE with_picked(ev, e, bi, dep, pick_version(e, dep), pk, cl)

\* lines 575-580: c is the outcome of check_cfg, Ok(TRUE) without expression
after_cfg(ev, e, bi, dep, c, pk, cl) ==
    IF ~c.ok THEN Return(ev, c.err)
    ELSE IF ~c.val THEN Continue(ev, "cfg")
    ELSE feature_gate(ev, e, bi, dep, pk, cl)

\* the body of the loop, lines 575-650
probe_dep(e, bi, dep, pk, cl) ==
    after_cfg([NoEvent(dep, bi) EXCEPT !.cfg_checked = IsSome(dep.cfg)], e, bi, dep,
              IF IsSome(dep.cfg) THEN check_cfg(e, Unwrap(dep.cfg)) ELSE Ok(TRUE),
              pk, cl)

------------------------------------------------------------------------------
\* Dependencies: override_from_flags and gen_flags

NoLibs == [k \in {} |-> NoLibrary]

\* Dependencies::add (HashMap::insert)
add_lib(libs, name, lib) == [k \in DOMAIN libs \cup {name} |-> IF k = name THEN lib ELSE libs[k]]

\* mutant: a value from the environment is put behind what was found
override_one_merge(e, name, lib) ==
    LET sn == env_get(e, new_search_native(name))
        sf == env_get(e, new_search_framework(name))
        l  == env_get(e, new_lib(name))
        lf == env_get(e, new_lib_framework(name))
        inc == env_get(e, new_include(name))
    IN  [lib EXCEPT
            !.link_paths = IF IsSome(sn) THEN @ \o split_paths(Unwrap(sn)) ELSE @,
            !.framework_paths = IF IsSome(sf) THEN @ \o split_paths(Unwrap(sf)) ELSE @,
            !.libs = IF IsSome(l) THEN @ \o split_string(Unwrap(l)) ELSE @,
            !.frameworks = IF IsSome(lf) THEN @ \o split_string(Unwrap(lf)) ELSE @,
            !.include_paths = IF IsSome(inc) THEN @ \o split_paths(Unwrap(inc)) ELSE @]

\* the body of the loop of override_from_flags
override_one(e, name, lib) ==
    LET sn == env_get(e, new_search_native(name))
        sf == env_get(e, new_search_framework(name))
        l  == env_get(e, new_lib(name))
        lf == env_get(e, new_lib_framework(name))
        inc == env_get(e, new_include(name))
    IN  [lib EXCEPT
            !.link_paths = IF IsSome(sn) THEN split_paths(Unwrap(sn)) ELSE @,
            !.framework_paths = IF IsSome(sf) THEN split_paths(Unwrap(sf)) ELSE @,
            !.libs = IF IsSome(l) THEN split_string(Unwrap(l)) ELSE @,
            !.frameworks = IF IsSome(lf) THEN split_string(Unwrap(lf)) ELSE @,
            !.include_paths = IF IsSome(inc) THEN split_paths(Unwrap(inc)) ELSE @]

override_from_flags(libs, e) == [name \in DOMAIN libs |-> override_one(e, name, libs[name])]

FlagInclude(paths) == [kind |-> "Include", text |-> paths, var |-> <<>>]

FlagRerunIfEnvChanged(var) == [kind |-> "RerunIfEnvChanged", text |-> <<>>, var |-> var]

RECURSIVE Flatten(_)
Flatten(ss) == IF Len(ss) = 0 THEN <<>> ELSE ss[1] \o Flatten(Tail(ss))

\* lines 371-384: for each library in iteration order, its seven variables
rerun_flags(order) ==
    Flatten([n \in 1..Len(order) |->
                [i \in 1..Len(Suffixes) |-> FlagRerunIfEnvChanged(EnvVariable(Suffixes[i], order[n]))]])

\* lines 334-342: the first library in iteration order that names nothing to link
missing_lib(libs, order) ==
    LET bad == {n \in 1..Len(order) :
                    /\ libs[order[n]].source = EnvVariables
                    /\ libs[order[n]].libs = <<>>
                    /\ libs[order[n]].frameworks = <<>>}
    IN  IF bad = {} THEN None
        ELSE Some(order[CHOOSE n \in bad : \A m \in bad : n <= m])

include_flag(include_paths) ==
    IF include_paths # <<>> /\ IsSome(join_paths(include_paths))
    THEN <<FlagInclude(Unwrap(join_paths(include_paths)))>>
    ELSE <<>>

\* lines 332-335 and 360-364: the header paths of all libraries
all_include(libs, order) == include_flag(Flatten([n \in 1..Len(order) |-> libs[order[n]].include_paths]))

\* mutant: a library from the environment is never checked
flags_nocheck(bad, inc, order, e) ==
    Ok(inc \o <<FlagRerunIfEnvChanged(new_build_internal(None))>> \o rerun_flags(order))

\* mutant: only the variables that are set are watched
flags_set_only(bad, inc, order, e) ==
    IF IsSome(bad) THEN Err(ErrMissingLib(Unwrap(bad)))
    ELSE Ok(inc \o SelectSeq(<<FlagRerunIfEnvChanged(new_build_internal(None))>> \o rerun_flags(order),
                             LAMBDA f : env_contains(e, f.var)))

flags_of(bad, inc, order, e) ==
    IF IsSome(bad) THEN Err(ErrMissingLib(Unwrap(bad)))
    ELSE Ok(inc \o <<FlagRerunIfEnvChanged(new_build_internal(None))>> \o rerun_flags(order))

\* Dependencies::gen_flags, the map iterated in the given order
gen_flags(libs, order, e) == flags_of(missing_lib(libs, order), all_include(libs, order), order, e)

\* the orders a HashMap with these keys can be iterated in
Orders(ks) == {o \in [1..Cardinality(ks) -> ks] : \A i, j \in 1..Cardinality(ks) : o[i] = o[j] => i = j}

------------------------------------------------------------------------------
\* Inputs

Dep(key, name, version, feature, cfg, optional, overrides) ==
    [key |-> key, name |-> name, version |-> version, feature |-> feature, cfg |-> cfg,
     optional |-> optional, version_overrides |-> overrides]

Override(key, version, name, optional) == [key |-> key, version |-> version, name |-> name, optional |-> optional]

\* the manifests of at most MaxDeps entries drawn from a set of entries
Manifests(entries) == UNION {[1..n -> entries] : n \in 1..MaxDeps}

\* every way of setting some of the variables vs to one of the texts
Settings(vs, texts) == UNION {[S -> texts] : S \in SUBSET vs}

BaseEnv == (TargetVar :> LinuxTriple) @@ (ManifestDirVar :> <<"d">>)

\* the names a build script registers closures under
RegNames == {"a", "n"}

\* texts for a build-internal mode: the three modes and one that is none
ModeTexts == {Auto, Always, Never, <<"A", "u", "t", "o">>}

------------------------------------------------------------------------------
\* State machine

Running == [done |-> FALSE, ok |-> FALSE, err |-> NoErr]

Failed(e) == [done |-> TRUE, ok |-> FALSE, err |-> e]

Succeeded == [done |-> TRUE, ok |-> TRUE, err |-> NoErr]

InitWith(envs, manifests, scripts) ==
    /\ env \in envs
    /\ deps \in manifests
    /\ hooks \in scripts
    /\ build_internals = {}
    /\ pc = "config"
    /\ idx = 1
    /\ libraries = NoLibs
    /\ iter_order = <<>>
    /\ flags = <<>>
    /\ stdout = <<>>
    /\ result = Running
    /\ log = <<>>

\* HashMap::insert of a closure under name
insert_closure(bi, name) == bi \cup {name}

\* Config::add_build_internal, for a name the build script has yet to register
AddBuildInternal ==
    /\ pc = "config"
    /\ \E name \in hooks \ build_internals : build_internals' = insert_closure(build_internals, name)
    /\ UNCHANGED <<env, deps, hooks, pc, idx, libraries, iter_order, flags, stdout, result, log>>

\* Config::probe, called at the end of the builder chain, up to the loop of
\* probe_pkg_config (lines 563-572)
Probe ==
    /\ pc = "config"
    /\ build_internals = hooks
    /\ IF env_contains(env, ManifestDirVar)
       THEN pc' = "probe_pkg_config" /\ result' = result
       ELSE pc' = "done" /\ result' = Failed(ErrInvalidMetadata("$CARGO_MANIFEST_DIR not set"))
    /\ UNCHANGED <<env, deps, hooks, build_internals, idx, libraries, iter_order, flags, stdout, log>>

\* what an iteration that went as ev leaves behind
Iterated(ev) ==
    /\ log' = Append(log, ev)
    /\ build_internals' = ev.bi_after
    /\ libraries' = IF ev.flow = "add" THEN add_lib(libraries, ev.key, ev.lib) ELSE libraries
    /\ idx' = IF ev.flow = "return" THEN idx ELSE idx + 1
    /\ pc' = IF ev.flow = "return" THEN "done" ELSE pc
    /\ result' = IF ev.flow = "return" THEN Failed(ev.err) ELSE result
    /\ stdout' = stdout \o ev.printed

\* one iteration of the loop of probe_pkg_config (lines 574-651)
ProbeDep ==
    /\ pc = "probe_pkg_config"
    /\ idx <= Len(deps)
    /\ \E pk \in PkgOutcomes, cl \in ClosureOutcomes :
          Iterated(probe_dep(env, build_internals, deps[idx], pk, cl))
    /\ UNCHANGED <<env, deps, hooks, iter_order, flags>>

\* the end of probe_pkg_config, then Dependencies::override_from_flags
\* (probe_full, lines 556-559)
OverrideFromFlags ==
    /\ pc = "probe_pkg_config"
    /\ idx > Len(deps)
    /\ libraries' = override_from_flags(libraries, env)
    /\ iter_order' \in Orders(DOMAIN libraries)
    /\ pc' = "gen_flags"
    /\ UNCHANGED <<env, deps, hooks, build_internals, idx, flags, stdout, result, log>>

\* let flags = libraries.gen_flags()?
Generated(r) ==
    IF r.ok
    THEN flags' = r.val /\ pc' = "output" /\ result' = result
    ELSE flags' = flags /\ pc' = "done" /\ result' = Failed(r.err)

\* Dependencies::gen_flags (probe, line 519)
GenFlags ==
    /\ pc = "gen_flags"
    /\ Generated(gen_flags(libraries, iter_order, env))
    /\ UNCHANGED <<env, deps, hooks, build_internals, idx, libraries, iter_order, stdout, log>>

CfgLine(name) == [kind |-> "rustc-cfg", text |-> <<>>, var |-> <<"system_deps_have", to_snake_case(name)>>]

\* the output of probe (lines 522-528)
Output ==
    /\ pc = "output"
    /\ stdout' = stdout \o flags \o [n \in 1..Len(iter_order) |-> CfgLine(iter_order[n])]
    /\ result' = Succeeded
    /\ pc' = "done"
    /\ UNCHANGED <<env, deps, hooks, build_internals, idx, libraries, iter_order, flags, log>>

Next == AddBuildInternal \/ Probe \/ ProbeDep \/ OverrideFromFlags \/ GenFlags \/ Output

------------------------------------------------------------------------------
\* Spec: the decision procedure. The entries differ in name, optional flag
\* and gating; the environment in the no-discovery variable of key "a", its
\* build-internal mode and the global mode.

DecisionDeps ==
    {Dep("a", None, Some("2"), None, None, FALSE, <<>>),
     Dep("a", Some("n"), Some("2"), None, Some(CfgTargetOs("linux")), TRUE, <<>>),
     Dep("b-c", None, Some("2"), None, None, TRUE, <<Override("v3", "3", Some("n"), Some(FALSE))>>),
     Dep("a", None, Some("2"), Some("f"), None, FALSE, <<>>)}

DecisionEnvs ==
    {BaseEnv @@ f @@ m : f \in Settings({FeatureVar("v3"), new_no_pkg_config("a")}, {<<>>}),
                         m \in Settings({new_build_internal(Some("a")), new_build_internal(None)}, ModeTexts)}

Init == InitWith(DecisionEnvs, Manifests(DecisionDeps), SUBSET RegNames)

Spec == Init /\ [][Next]_vars

------------------------------------------------------------------------------
\* Properties of the decision procedure, over the record of each iteration.
\* log[i] is the record of the iteration on deps[i].

\* the entry passed both gates and has a version
Accepted(ev) == ev.picked /\ IsSome(ev.version)

NoDiscoverySet(ev) == ManifestDirVar \in DOMAIN env /\ new_no_pkg_config(ev.key) \in DOMAIN env

ModeResolved(ev) == ev.mode \in {"Auto", "Always", "Never"}

RegistryUntouched(ev) == ~ev.bi_requested /\ ~ev.bi_invoked /\ ev.bi_after = ev.bi_before

\* the library that went into the resolved set is the one in the map right
\* after the iteration
InsertedNow == (pc = "probe_pkg_config" /\ Len(log) > 0 /\ log[Len(log)].flow = "add") =>
                  (log[Len(log)].key \in DOMAIN libraries /\ libraries[log[Len(log)].key] = log[Len(log)].lib)

\* C1: an accepted entry whose no-discovery variable is set never reaches
\* pkg-config nor the registry, and whenever its build-internal mode resolves
\* (to auto, always or never alike) it is added with the source EnvVariables.
C1_NoDiscoveryBypasses ==
    /\ \A i \in 1..Len(log) :
          (Accepted(log[i]) /\ NoDiscoverySet(log[i])) =>
              /\ ~log[i].pkg_called
              /\ RegistryUntouched(log[i])
              /\ ModeResolved(log[i]) =>
                    (log[i].flow = "add" /\ log[i].lib.source = EnvVariables /\ log[i].lib.name = log[i].key)
    /\ InsertedNow

\* C1 witness: no-discovery set, mode always, a closure registered under the
\* entry's key and library name, and the entry added from the environment
C1_Witness ==
    \E i \in 1..Len(log) :
        /\ Accepted(log[i]) /\ NoDiscoverySet(log[i])
        /\ log[i].mode = "Always"
        /\ log[i].key \in log[i].bi_before
        /\ log[i].lib_name \in log[i].bi_before
        /\ log[i].flow = "add"
        /\ log[i].lib.source = EnvVariables

\* C2 (as claimed): without no-discovery and in mode always, pkg-config is not
\* asked, the closure registered for the entry's key is invoked, and when none
\* is registered for the key the run fails with BuildInternalNoClosure.
C2_AlwaysUsesKeyClosure ==
    \A i \in 1..Len(log) :
        (Accepted(log[i]) /\ ~NoDiscoverySet(log[i]) /\ log[i].mode = "Always") =>
            /\ ~log[i].pkg_called
            /\ log[i].key \in log[i].bi_before => log[i].bi_invoked
            /\ log[i].key \notin log[i].bi_before =>
                  (log[i].flow = "return" /\ log[i].err.tag = "BuildInternalNoClosure")

\* C3: in mode auto without no-discovery pkg-config is asked; when it finds the
\* library the registry is not touched and the library added is the one found
\* (source PkgConfig); when it does not and a closure is registered for the
\* key, that closure is invoked and moved out, and the library added, if the
\* run goes on, is the one the closure returned.
C3_AutoPrefersDiscovery ==
    /\ \A i \in 1..Len(log) :
          (Accepted(log[i]) /\ ~NoDiscoverySet(log[i]) /\ log[i].mode = "Auto") =>
              /\ log[i].pkg_called
              /\ log[i].pkg_ok =>
                    /\ RegistryUntouched(log[i])
                    /\ log[i].flow = "add"
                    /\ log[i].lib.source = PkgConfig
                    /\ log[i].lib.libs = pkg_config_Library.libs
              /\ (~log[i].pkg_ok /\ log[i].key \in log[i].bi_before) =>
                    /\ log[i].bi_invoked
                    /\ log[i].bi_name = log[i].key
                    /\ log[i].bi_after = log[i].bi_before \ {log[i].key}
                    /\ log[i].flow \in {"add", "return"}
                    /\ log[i].flow = "add" => (log[i].bi_ret.ok /\ log[i].lib = log[i].bi_ret.val)
                    /\ log[i].flow = "return" =>
                          log[i].err.tag \in {"BuildInternalClosureError", "BuildInternalWrongVersion"}
                    /\ (log[i].bi_ret.ok
                          /\ VersionCompare(log[i].bi_ret.val.version, log[i].bi_version) \in {Some("Eq"), Some("Gt")}) =>
                          log[i].flow = "add"
    /\ InsertedNow

\* C3 witness: auto, pkg-config fails, the closure of the key returns a
\* library and that library is in the resolved set
C3_Witness ==
    \E i \in 1..Len(log) :
        /\ Accepted(log[i]) /\ ~NoDiscoverySet(log[i]) /\ log[i].mode = "Auto"
        /\ log[i].pkg_called /\ ~log[i].pkg_ok
        /\ log[i].key \in log[i].bi_before
        /\ log[i].flow = "add"
        /\ log[i].lib = log[i].bi_ret.val
        /\ i = Len(log) /\ pc = "probe_pkg_config"
        /\ libraries[log[i].key].libs = built_Library("").libs

\* C4 (as claimed): a library returned by a closure is added only when the
\* comparison of its version with the required one succeeds and is not Lt.
C4_FallbackVersionChecked ==
    \A i \in 1..Len(log) :
        (log[i].bi_invoked /\ log[i].bi_ret.ok) =>
            /\ log[i].flow = "add" =>
                  VersionCompare(log[i].bi_ret.val.version, log[i].bi_version) \in {Some("Eq"), Some("Gt")}
            /\ VersionCompare(log[i].bi_ret.val.version, log[i].bi_version) = Some("Lt") =>
                  /\ log[i].flow = "return"
                  /\ log[i].err = ErrBuildInternalWrongVersion(log[i].bi_name, log[i].bi_ret.val.version, log[i].bi_version)

\* the overrides of an entry whose feature variable is set
EnabledOf(dep) == {n \in 1..Len(dep.version_overrides) : FeatureVar(dep.version_overrides[n].key) \in DOMAIN env}

\* the optional flag in force for an entry, given the version that was picked
OptionalInForce(dep, version) ==
    IF EnabledOf(dep) = {} THEN {dep.optional}
    ELSE {UnwrapOr(dep.version_overrides[n].optional, dep.optional) :
             n \in {m \in EnabledOf(dep) : Some(dep.version_overrides[m].version) = version}}

\* C5: when pkg-config fails, mode auto calls the fallback of the key (a
\* missing closure is BuildInternalNoClosure, optional or not); otherwise an
\* optional entry is skipped without library or error, and a required one
\* returns the pkg-config error. The optional flag is the selected override's
\* when it has one, else the entry's. An accepted entry is skipped in no other
\* case: every other failure returns its error.
C5_DiscoveryFailureOutcome ==
    \A i \in 1..Len(log) :
        /\ (log[i].pkg_called /\ ~log[i].pkg_ok /\ log[i].mode = "Auto") =>
              /\ log[i].bi_requested /\ log[i].bi_name = log[i].key
              /\ log[i].key \notin log[i].bi_before =>
                    (log[i].flow = "return" /\ log[i].err.tag = "BuildInternalNoClosure")
              /\ log[i].flow # "continue"
        /\ (log[i].pkg_called /\ ~log[i].pkg_ok /\ log[i].mode # "Auto" /\ log[i].optional) =>
              (log[i].flow = "continue" /\ RegistryUntouched(log[i]) /\ log[i].err = NoErr)
        /\ (log[i].pkg_called /\ ~log[i].pkg_ok /\ log[i].mode # "Auto" /\ ~log[i].optional) =>
              (log[i].flow = "return" /\ log[i].err.tag = "PkgConfig")
        /\ log[i].picked => log[i].optional \in OptionalInForce(deps[i], log[i].version)
        /\ (log[i].picked /\ log[i].flow = "continue") =>
              (log[i].pkg_called /\ ~log[i].pkg_ok /\ log[i].optional /\ ~log[i].bi_requested)
        /\ log[i].flow = "continue" => (log[i].err = NoErr /\ log[i].lib = NoLibrary)

\* C5 witness: an entry made optional by nothing but kept required by its
\* enabled override: pkg-config fails in mode never and the error is returned,
\* although the entry's own flag says optional
C5_Witness ==
    \E i \in 1..Len(log) :
        /\ log[i].pkg_called /\ ~log[i].pkg_ok
        /\ log[i].mode = "Never"
        /\ deps[i].optional /\ ~log[i].optional
        /\ log[i].flow = "return" /\ log[i].err.tag = "PkgConfig"

\* the mode a text stands for, "" when it is none of the three
ModeOfText(t) == IF t = Auto THEN "Auto" ELSE IF t = Always THEN "Always" ELSE IF t = Never THEN "Never" ELSE ""

\* the variable that decides the mode of a key: the per-key one when set,
\* else the global one when set, else none
DecidingVar(key) ==
    IF new_build_internal(Some(key)) \in DOMAIN env THEN Some(new_build_internal(Some(key)))
    ELSE IF new_build_internal(None) \in DOMAIN env THEN Some(new_build_internal(None))
    ELSE None

\* C7: the mode of a key is what its per-key variable says when that is set,
\* else what the global variable says when that is set, else never; a deciding
\* variable that is none of auto/always/never fails the run with
\* BuildInternalInvalid naming the variable and its value; a global variable
\* behind a per-key one is not looked at.
C7_ModeResolution ==
    \A i \in 1..Len(log) :
        log[i].mode_read =>
            IF IsSome(DecidingVar(log[i].key))
            THEN IF ModeOfText(env[Unwrap(DecidingVar(log[i].key))]) # ""
                 THEN log[i].mode = ModeOfText(env[Unwrap(DecidingVar(log[i].key))])
                      /\ log[i].err.tag # "BuildInternalInvalid"
                 ELSE log[i].flow = "return"
                      /\ log[i].err = ErrBuildInternalInvalid(Unwrap(DecidingVar(log[i].key)),
                                                             env[Unwrap(DecidingVar(log[i].key))])
            ELSE log[i].mode = "Never"

\* C7 witness: the per-key variable says auto, the global one holds no mode,
\* and the mode is auto
C7_Witness ==
    \E i \in 1..Len(log) :
        /\ log[i].mode_read
        /\ new_build_internal(Some(log[i].key)) \in DOMAIN env
        /\ new_build_internal(None) \in DOMAIN env
        /\ ModeOfText(env[new_build_internal(None)]) = ""
        /\ log[i].mode = "Auto"

------------------------------------------------------------------------------
\* SpecVersions: the pick among version overrides. The entries declare two
\* overrides each, in ascending and in descending order, with equal versions
\* and with a version that does not parse; the environment differs in the
\* features that are enabled.

VersionDeps ==
    {Dep("a", None, Some("1"), None, None, FALSE,
         <<Override("v2", "2", None, None), Override("v3", "3", Some("n"), Some(TRUE))>>),
     Dep("a", None, None, None, None, TRUE,
         <<Override("v3", "3", None, Some(FALSE)), Override("v2", "2", Some("n"), None)>>),
     Dep("b-c", Some("n"), Some("1"), None, None, FALSE,
         <<Override("v2", "2", None, Some(TRUE)), Override("v3", "2.0", None, None)>>),
     Dep("b-c", None, Some("3"), None, None, TRUE,
         <<Override("v2", "x", None, None), Override("v3", "2", None, None)>>)}

VersionEnvs == {BaseEnv @@ f : f \in Settings({FeatureVar("v2"), FeatureVar("v3")}, {<<>>})}

InitVersions == InitWith(VersionEnvs, Manifests(VersionDeps), {{"a"}})

SpecVersions == InitVersions /\ [][Next]_vars

\* n is enabled, no enabled override is greater, and every enabled override
\* declared behind it is smaller
Highest(dep, n) ==
    /\ n \in EnabledOf(dep)
    /\ \A m \in EnabledOf(dep) :
          /\ VersionCompare(dep.version_overrides[m].version, dep.version_overrides[n].version) \in {Some("Lt"), Some("Eq")}
          /\ m > n => VersionCompare(dep.version_overrides[m].version, dep.version_overrides[n].version) = Some("Lt")

AllParse(dep) == \A m \in EnabledOf(dep) : IsSome(VersionParts(dep.version_overrides[m].version))

\* the event took the version, name and optional flag of override n
TookOverride(ev, dep, n) ==
    /\ ev.version = Some(dep.version_overrides[n].version)
    /\ ev.lib_name = UnwrapOr(dep.version_overrides[n].name, lib_name_of(dep))
    /\ ev.optional = UnwrapOr(dep.version_overrides[n].optional, dep.optional)

\* the environment with exactly the features fs enabled
FeatureEnv(fs) == [v \in {FeatureVar(f) : f \in fs} |-> <<>>]

\* the version picked for dep when exactly the features fs are enabled
PickedUnder(dep, fs) == pick_version(FeatureEnv(fs), dep)

\* C6: with no override enabled the entry's own version, name and optional
\* flag are in force; with some enabled, those of the enabled override with
\* the highest version, the last declared among equal ones, whatever the
\* order of declaration (two enabled overrides of which one does not parse
\* stop the run). Enabling one more feature never lowers the version picked
\* among overrides.
C6_HighestOverride ==
    /\ \A i \in 1..Len(log) :
          (log[i].picked \/ log[i].err.tag = "panic") =>
              /\ EnabledOf(deps[i]) = {} =>
                    /\ log[i].picked
                    /\ log[i].version = deps[i].version
                    /\ log[i].lib_name = lib_name_of(deps[i])
                    /\ log[i].optional = deps[i].optional
              /\ (EnabledOf(deps[i]) # {} /\ AllParse(deps[i])) =>
                    /\ log[i].picked
                    /\ \E n \in EnabledOf(deps[i]) : Highest(deps[i], n) /\ TookOverride(log[i], deps[i], n)
              /\ (Cardinality(EnabledOf(deps[i])) = 1) =>
                    /\ log[i].picked
                    /\ \E n \in EnabledOf(deps[i]) : TookOverride(log[i], deps[i], n)
              /\ (Cardinality(EnabledOf(deps[i])) >= 2 /\ ~AllParse(deps[i])) =>
                    (log[i].flow = "return" /\ log[i].err.tag = "panic")
    /\ \A i \in 1..Len(deps) : \A gs \in SUBSET {"v2", "v3"} : \A fs \in SUBSET gs :
          (fs # {} /\ PickedUnder(deps[i], fs).ok /\ PickedUnder(deps[i], gs).ok) =>
              VersionCompare(Unwrap(PickedUnder(deps[i], gs).val.version),
                             Unwrap(PickedUnder(deps[i], fs).val.version)) # Some("Lt")

\* C6 witness: two overrides enabled, the higher one declared first, and the
\* higher one is in force with its optional flag
C6_Witness ==
    \E i \in 1..Len(log) :
        /\ Cardinality(EnabledOf(deps[i])) = 2
        /\ deps[i].version_overrides[1].version = "3"
        /\ deps[i].version_overrides[2].version = "2"
        /\ log[i].picked
        /\ log[i].version = Some("3")
        /\ deps[i].optional /\ ~log[i].optional

------------------------------------------------------------------------------
\* SpecFlags: the override pass and the flag generator. Two entries are
\* probed; the environment differs in the five variables that replace the
\* fields of "a", in the no-discovery variables of both keys and in the global
\* mode, so that libraries of every origin reach the pass.

FlagDeps ==
    {Dep("a", None, Some("2"), None, None, FALSE, <<>>),
     Dep("b-c", None, Some("2"), None, None, TRUE, <<>>)}

\* a value with a space and a path separator in it
ListText == <<"x", " ", "y", ":", "z">>

FieldVars == {new_search_native("a"), new_search_framework("a"), new_lib("a"), new_lib_framework("a"), new_include("a")}

FlagEnvs ==
    {BaseEnv @@ f @@ n @@ m :
        f \in Settings(FieldVars, {<<>>, ListText}),
        n \in Settings({new_no_pkg_config("a"), new_no_pkg_config("b-c")}, {<<>>}),
        m \in Settings({new_build_internal(None)}, {Auto})}

InitFlags == InitWith(FlagEnvs, Manifests(FlagDeps), {{"a"}})

SpecFlags == InitFlags /\ [][Next]_vars

\* the loop of probe_pkg_config has ended and the override pass has run
Overridden == pc \in {"gen_flags", "output", "done"} /\ idx > Len(deps)

\* the keys whose library comes from the environment and names nothing to link
BadKeys ==
    {k \in DOMAIN libraries :
        /\ libraries[k].source = EnvVariables
        /\ libraries[k].libs = <<>>
        /\ libraries[k].frameworks = <<>>}

\* the iteration that added the library the set holds under key k
LastAdded(k) ==
    CHOOSE i \in 1..Len(log) :
        /\ log[i].key = k /\ log[i].flow = "add"
        /\ \A j \in (i+1)..Len(log) : ~(log[j].key = k /\ log[j].flow = "add")

\* C8: a run that has resolved its entries fails with MissingLib, naming such
\* a key, exactly when some library of EnvVariables origin has, after the
\* override pass, neither libs nor frameworks; a run that fails earlier fails
\* with something else; a library from the environment with libs alone goes
\* through, and no successful run returns a library from the environment
\* that names nothing to link.
C8_MissingLibExactly ==
    /\ (pc = "done" /\ Overridden) =>
          /\ result.err.tag = "MissingLib" <=> BadKeys # {}
          /\ result.err.tag = "MissingLib" => result.err.name \in BadKeys
          /\ result.ok <=> BadKeys = {}
    /\ (pc = "done" /\ ~Overridden) => (~result.ok /\ result.err.tag # "MissingLib")
    /\ result.ok => \A k \in DOMAIN libraries :
          (libraries[k].source = EnvVariables \/ log[LastAdded(k)].no_pkg_config) =>
              (libraries[k].libs # <<>> \/ libraries[k].frameworks # <<>>)

\* C8 witness: discovery of "a" is turned off, its lib variable is set to the
\* empty text, and the run has failed with MissingLib for "a"
C8_Witness ==
    /\ pc = "done"
    /\ env_contains(env, new_no_pkg_config("a"))
    /\ env_get(env, new_lib("a")) = Some(<<>>)
    /\ ~env_contains(env, new_lib_framework("a"))
    /\ result.err.tag = "MissingLib"
    /\ result.err.name = "a"

\* the library of key k as the loop added it, before the pass
PreOverride(k) == log[LastAdded(k)].lib

\* the list a variable of names stands for
ParsedList(text) ==
    IF text = <<>> THEN <<>>
    ELSE IF text = ListText THEN << <<"x">>, <<"y", ":", "z">> >>
    ELSE << text >>

\* the list a variable of paths stands for
ParsedPaths(text) ==
    IF text = <<>> THEN <<>>
    ELSE IF text = ListText THEN << <<"x", " ", "y">>, <<"z">> >>
    ELSE << text >>

\* the field after the pass: what the variable says when it is set, what the
\* field held before when it is not
FieldAfter(value, before, parsed) == IF IsSome(value) THEN parsed ELSE before

\* C9: after the override pass every library of the set, whatever its origin,
\* holds in each of the five fields the parsed value of the field's variable
\* when the variable is present (nothing for the empty text) and the value it
\* held before the pass when the variable is absent; name, source, defines and
\* version are as before the pass.
C9_OverrideReplaces ==
    Overridden => \A k \in DOMAIN libraries :
        /\ libraries[k].link_paths =
              FieldAfter(env_get(env, new_search_native(k)), PreOverride(k).link_paths,
                         ParsedPaths(UnwrapOr(env_get(env, new_search_native(k)), <<>>)))
        /\ libraries[k].framework_paths =
              FieldAfter(env_get(env, new_search_framework(k)), PreOverride(k).framework_paths,
                         ParsedPaths(UnwrapOr(env_get(env, new_search_framework(k)), <<>>)))
        /\ libraries[k].libs =
              FieldAfter(env_get(env, new_lib(k)), PreOverride(k).libs,
                         ParsedList(UnwrapOr(env_get(env, new_lib(k)), <<>>)))
        /\ libraries[k].frameworks =
              FieldAfter(env_get(env, new_lib_framework(k)), PreOverride(k).frameworks,
                         ParsedList(UnwrapOr(env_get(env, new_lib_framework(k)), <<>>)))
        /\ libraries[k].include_paths =
              FieldAfter(env_get(env, new_include(k)), PreOverride(k).include_paths,
                         ParsedPaths(UnwrapOr(env_get(env, new_include(k)), <<>>)))
        /\ libraries[k].name = PreOverride(k).name
        /\ libraries[k].source = PreOverride(k).source
        /\ libraries[k].defines = PreOverride(k).defines
        /\ libraries[k].version = PreOverride(k).version

\* C9 witness: a library built by a closure has gone through the pass with
\* its lib variable set to the empty text and its include variable set to a
\* list; it has no libs left, the listed header paths, and the search paths
\* the closure gave it
C9_Witness ==
    /\ Overridden
    /\ "a" \in DOMAIN libraries
    /\ env_get(env, new_lib("a")) = Some(<<>>)
    /\ env_get(env, new_include("a")) = Some(ListText)
    /\ ~env_contains(env, new_search_native("a"))
    /\ PreOverride("a").libs = << <<"b">> >>
    /\ libraries["a"].libs = <<>>
    /\ libraries["a"].include_paths = << <<"x", " ", "y">>, <<"z">> >>
    /\ libraries["a"].link_paths = << <<"o">> >>
    /\ libraries["a"].defines = {<<"BUILT", None>>}

\* the variables a run over the keys ks depends on
WatchedVars(ks) == {new_build_internal(None)} \cup {EnvVariable(Suffixes[n], k) : n \in 1..Len(Suffixes), k \in ks}

\* C10: the flags of a run that succeeds, and what it prints, hold a rerun
\* trigger for the global build-internal variable and for each of the seven
\* variables of every key of the set, set or not.
C10_RerunTriggers ==
    /\ pc = "output" =>
          \A v \in WatchedVars(DOMAIN libraries) : \E n \in 1..Len(flags) : flags[n] = FlagRerunIfEnvChanged(v)
    /\ result.ok =>
          \A v \in WatchedVars(DOMAIN libraries) : \E n \in 1..Len(stdout) : stdout[n] = FlagRerunIfEnvChanged(v)

\* C10 witness: a run has succeeded with two keys in the set, with the lib
\* variable of one set and nothing set for the other, the global variable
\* unset, and prints a trigger for the unset variables
C10_Witness ==
    /\ result.ok
    /\ DOMAIN libraries = {"a", "b-c"}
    /\ env_contains(env, new_lib("a"))
    /\ ~env_contains(env, new_build_internal(None))
    /\ ~env_contains(env, new_no_pkg_config("b-c"))
    /\ \E n \in 1..Len(stdout) : stdout[n] = FlagRerunIfEnvChanged(new_build_internal(None))
    /\ \E n \in 1..Len(stdout) : stdout[n] = FlagRerunIfEnvChanged(new_no_pkg_config("b-c"))
    /\ \E n \in 1..Len(stdout) : stdout[n] = FlagRerunIfEnvChanged(new_build_internal(Some("b-c")))

------------------------------------------------------------------------------
\* The stream a run emits, and the order the set is iterated in

\* what pkg-config has printed while the entries were probed
Discovered == Flatten([i \in 1..Len(log) |-> log[i].printed])

\* what a successful run over the resolved set prints when the map is
\* iterated in order o: what pkg-config printed, the flags, then one presence
\* marker per key
EmissionUnder(o) == Discovered \o gen_flags(libraries, o, env).val \o [n \in 1..Len(o) |-> CfgLine(o[n])]

\* C11 (as claimed): what a successful run has printed is what it prints
\* under every iteration order of the resolved set: the same directives in
\* the same order.
C11_EmissionDeterministic ==
    result.ok => \A o \in Orders(DOMAIN libraries) : stdout = EmissionUnder(o)

------------------------------------------------------------------------------
\* SpecGates: the two gates and the version requirement. The entries carry
\* target expressions that match, do not match or cannot be interpreted, a
\* feature gate, and no plain version; the environment differs in the target,
\* in the features and in the variables read behind the gates.

GateDeps ==
    {Dep("a", None, Some("2"), Some("f"), Some(CfgOther("u")), FALSE, <<>>),
     Dep("a", None, None, Some("f"), Some(CfgTargetOs("macos")), TRUE,
         <<Override("v3", "3", None, None)>>),
     Dep("b-c", None, None, None, Some(CfgNot("n", CfgTargetOs("macos"))), FALSE,
         <<Override("v3", "3", None, None)>>),
     Dep("b-c", None, Some("2"), None, Some(CfgAll("al", CfgOther("u"), CfgTargetOs("macos"))), FALSE, <<>>)}

\* a text that is no build-internal mode
BadMode == <<"y", "e", "s">>

GateEnvs ==
    {(ManifestDirVar :> <<"d">>) @@ t @@ f @@ m @@ n :
        t \in [{TargetVar} -> {LinuxTriple, MacosTriple}],
        f \in Settings({FeatureVar("f"), FeatureVar("v3")}, {<<>>}),
        m \in Settings({new_build_internal(None)}, {Auto, BadMode}),
        n \in Settings({new_no_pkg_config("b-c")}, {<<>>})}

InitGates == InitWith(GateEnvs, Manifests(GateDeps), {{"a"}})

SpecGates == InitGates /\ [][Next]_vars

\* what the matcher makes of the expression of an entry for the target of
\* the run: Some(TRUE), Some(FALSE), or None for an unsupported predicate
Matched(dep) == cfg_eval(Unwrap(dep.cfg), Unwrap(get_builtin_target_by_triple(env[TargetVar])))

\* nothing was asked of pkg-config or of the registry, and nothing was added
Untouched(ev) == ~ev.pkg_called /\ RegistryUntouched(ev) /\ ev.lib = NoLibrary /\ ~ev.no_pkg_config

\* C12: an entry whose target expression the matcher cannot interpret stops
\* the run with UnsupportedCfg carrying the original text of the expression;
\* it is neither added nor skipped, whether its feature gate is enabled or
\* not, and nothing is probed or built for it.
C12_UnsupportedCfgFatal ==
    \A i \in 1..Len(log) :
        (IsSome(deps[i].cfg) /\ Matched(deps[i]) = None) =>
            /\ log[i].flow = "return"
            /\ log[i].err = ErrUnsupportedCfg(Unwrap(deps[i].cfg).original)
            /\ Untouched(log[i])
            /\ result = Failed(log[i].err)

\* C12 witness: the expression is a predicate that is no target predicate,
\* the entry's feature gate is disabled, and the run has failed with
\* UnsupportedCfg("u")
C12_Witness ==
    \E i \in 1..Len(log) :
        /\ deps[i].cfg = Some(CfgOther("u"))
        /\ deps[i].feature = Some("f")
        /\ ~env_contains(env, FeatureVar("f"))
        /\ log[i].flow = "return"
        /\ result.err.tag = "UnsupportedCfg"
        /\ result.err.name = "u"

\* the entry passes the target gate and its own feature gate
PassesGates(dep) ==
    /\ IsSome(dep.cfg) => Matched(dep) = Some(TRUE)
    /\ IsSome(dep.feature) => env_contains(env, FeatureVar(Unwrap(dep.feature)))

\* C13: an entry that passes both gates, has no plain version and no enabled
\* override stops the run with the missing-version error naming its key,
\* before the mode variables, the no-discovery variable, pkg-config or the
\* registry are looked at; an entry without a plain version is added only with
\* an override enabled.
C13_MissingVersion ==
    \A i \in 1..Len(log) :
        /\ (PassesGates(deps[i]) /\ deps[i].version = None /\ EnabledOf(deps[i]) = {}) =>
              /\ log[i].flow = "return"
              /\ log[i].err = ErrInvalidMetadata(deps[i].key)
              /\ ~log[i].mode_read
              /\ Untouched(log[i])
        /\ (deps[i].version = None /\ log[i].flow = "add") =>
              /\ EnabledOf(deps[i]) # {}
              /\ \E n \in EnabledOf(deps[i]) : log[i].version = Some(deps[i].version_overrides[n].version)
        /\ log[i].err.tag = "InvalidMetadata" => (deps[i].version = None /\ EnabledOf(deps[i]) = {})

\* C13 witness: an entry without plain version passes the gates with its
\* override disabled; the global mode variable holds no mode and the
\* no-discovery variable of the key is set, and the run has failed with the
\* missing-version error for the key
C13_Witness ==
    \E i \in 1..Len(log) :
        /\ PassesGates(deps[i]) /\ deps[i].version = None /\ EnabledOf(deps[i]) = {}
        /\ env_get(env, new_build_internal(None)) = Some(BadMode)
        /\ env_contains(env, new_no_pkg_config(deps[i].key))
        /\ result = Failed(ErrInvalidMetadata(deps[i].key))

------------------------------------------------------------------------------
\* The end of a run

\* the presence markers among what was printed
Markers == SelectSeq(stdout, LAMBDA f : f.kind = "rustc-cfg")

\* the keys the loop has added a library for
AddedKeys == {log[i].key : i \in {j \in 1..Len(log) : log[j].flow = "add"}}

\* C14 (as claimed): the iteration that returns an error is the last one and
\* its error is the result of the run; a run that has failed, in the loop or
\* in gen_flags, has printed nothing; a run that has succeeded has printed one
\* presence marker for each key of the set, the keys the loop added, and no
\* other.
C14_FailFast ==
    /\ \A i \in 1..Len(log) :
          log[i].flow = "return" => (i = Len(log) /\ pc = "done" /\ result = Failed(log[i].err))
    /\ (result.done /\ ~result.ok) => stdout = <<>>
    /\ result.ok =>
          /\ DOMAIN libraries = AddedKeys
          /\ Len(Markers) = Cardinality(DOMAIN libraries)
          /\ \A k \in DOMAIN libraries : \E n \in 1..Len(Markers) : Markers[n] = CfgLine(k)

------------------------------------------------------------------------------
\* SpecInternal: Library::from_internal_pkg_config, the helper a closure
\* calls to probe the directory it has built into. It is called in an
\* environment where PKG_CONFIG_PATH is absent, empty or a list of paths.

PkgConfigPathVar == <<"PKG_CONFIG_PATH">>

\* the values PKG_CONFIG_PATH is found with
PathTexts == {<<>>, <<"x">>, <<"y">>, <<"x", ":", "y">>, <<"y", ":", "x">>}

\* the directories the helper is pointed at; one holds the path separator
InternalDirs == {<<"d">>, <<"e", ":", "f">>}

InternalLibs == {"a", "n"}

InternalVersions == {"1", "2", "3"}

\* lines 814-822: the value PKG_CONFIG_PATH is given for the probe; None when
\* join_paths(..).unwrap() panics
path_for_probe(old, pkg_config_dir) ==
    IF IsSome(old) THEN join_paths(Append(SplitOn(Unwrap(old), ":"), pkg_config_dir))
    ELSE Some(pkg_config_dir)

\* line 831: old.unwrap_or_else(|_| "".into())
path_restored(old) == UnwrapOr(old, <<>>)

\* env::set_var
set_var(e, var, value) == [v \in DOMAIN e \cup {var} |-> IF v = var THEN value ELSE e[v]]

\* lines 833-836
internal_result(lib, pk) ==
    IF pk.ok THEN Ok(from_pkg_config(lib, pkg_config_Library)) ELSE Err(ErrPkgConfig(lib))

\* the record of a call of the helper
InternalCall(old, dir, lib, version, during, ret) ==
    [old |-> old, dir |-> dir, lib |-> lib, version |-> version, during |-> during, ret |-> ret]

\* the helper from the value it has set for the probe on (lines 824-836)
internal_probed(old, dir, lib, version, during, pk) ==
    IF IsSome(during)
    THEN /\ env' = set_var(env, PkgConfigPathVar, path_restored(old))
         /\ log' = <<InternalCall(old, dir, lib, version, during, internal_result(lib, pk))>>
         /\ stdout' = IF pk.ok THEN cargo_metadata(pkg_config_Library) ELSE <<>>
         /\ result' = IF pk.ok THEN Succeeded ELSE Failed(ErrPkgConfig(lib))
    ELSE /\ env' = env
         /\ log' = <<InternalCall(old, dir, lib, version, during, Err(ErrPanic("join_paths")))>>
         /\ stdout' = stdout
         /\ result' = Failed(ErrPanic("join_paths"))

\* Library::from_internal_pkg_config (lines 803-837)
FromInternalPkgConfig ==
    /\ pc = "closure"
    /\ \E dir \in InternalDirs, lib \in InternalLibs, version \in InternalVersions, pk \in PkgOutcomes :
          internal_probed(env_get(env, PkgConfigPathVar), dir, lib, version,
                          path_for_probe(env_get(env, PkgConfigPathVar), dir), pk)
    /\ pc' = "returned"
    /\ UNCHANGED <<deps, hooks, build_internals, idx, libraries, iter_order, flags>>

InitInternal ==
    /\ env \in {BaseEnv @@ p : p \in Settings({PkgConfigPathVar}, PathTexts)}
    /\ deps = <<>>
    /\ hooks = {}
    /\ build_internals = {}
    /\ pc = "closure"
    /\ idx = 1
    /\ libraries = NoLibs
    /\ iter_order = <<>>
    /\ flags = <<>>
    /\ stdout = <<>>
    /\ result = Running
    /\ log = <<>>

NextInternal == FromInternalPkgConfig

SpecInternal == InitInternal /\ [][NextInternal]_vars

\* C15 (as claimed): when the helper has returned, with a library or with an
\* error, PKG_CONFIG_PATH is as it was found: the same value when it was set,
\* and absent when it was absent.
C15_PathRestored ==
    (pc = "returned" /\ log[1].ret.err.tag # "panic") => env_get(env, PkgConfigPathVar) = log[1].old

------------------------------------------------------------------------------
\* The registry of build-internal closures

\* C16 (as claimed): whenever an entry asks for its fallback, in mode always
\* as in mode auto, the registry is looked up under the entry's key, and the
\* closure found is called with the library name and the version in force
\* for the entry.
C16_LookupByKey ==
    \A i \in 1..Len(log) :
        log[i].bi_requested =>
            /\ log[i].mode \in {"Always", "Auto"}
            /\ log[i].bi_name = log[i].key
            /\ log[i].bi_invoked =>
                  /\ log[i].bi_name = log[i].lib_name
                  /\ Some(log[i].bi_version) = log[i].version

\* the iterations in which the closure registered under name was invoked
InvokedIn(name) == {i \in 1..Len(log) : log[i].bi_invoked /\ log[i].bi_name = name}

\* C17: over a run every registered closure is invoked at most once; an
\* invocation takes the closure out of the registry whatever it returns (a
\* library, a failure, a version that is too low); a request under a name the
\* registry does not hold, such as a second request under the same name,
\* returns BuildInternalNoClosure and invokes nothing; closures that are not
\* requested stay in the registry.
C17_RegistryOneShot ==
    /\ \A name \in hooks : Cardinality(InvokedIn(name)) <= 1
    /\ \A i \in 1..Len(log) :
          /\ log[i].bi_invoked =>
                /\ log[i].bi_requested
                /\ log[i].bi_name \in log[i].bi_before
                /\ log[i].bi_after = log[i].bi_before \ {log[i].bi_name}
          /\ (log[i].bi_requested /\ log[i].bi_name \notin log[i].bi_before) =>
                /\ ~log[i].bi_invoked
                /\ log[i].flow = "return"
                /\ log[i].err = ErrBuildInternalNoClosure(log[i].bi_name, log[i].bi_version)
                /\ log[i].bi_after = log[i].bi_before
          /\ ~log[i].bi_invoked => log[i].bi_after = log[i].bi_before
          /\ \A j \in (i+1)..Len(log) :
                (log[i].bi_invoked /\ log[j].bi_requested /\ log[j].bi_name = log[i].bi_name) =>
                    (~log[j].bi_invoked /\ log[j].err.tag = "BuildInternalNoClosure")
          /\ i < Len(log) => log[i+1].bi_before = log[i].bi_after
    /\ pc # "config" => build_internals = {name \in hooks : InvokedIn(name) = {}}

\* C17 witness: two entries with the same key ask for the fallback in turn;
\* the closure built the library of the first and is gone for the second,
\* while another closure, never asked for, is still registered
C17_Witness ==
    \E i, j \in 1..Len(log) :
        /\ i < j
        /\ log[i].key = log[j].key
        /\ log[i].bi_invoked /\ log[i].flow = "add"
        /\ log[j].bi_requested /\ log[j].bi_name = log[i].bi_name
        /\ result.err.tag = "BuildInternalNoClosure"
        /\ build_internals # {}

------------------------------------------------------------------------------
\* Entries the gates leave out

\* the target expression of the entry does not match, or it matches (or there
\* is none) and the entry's own feature is not enabled
GatedOut(dep) ==
    \/ IsSome(dep.cfg) /\ Matched(dep) = Some(FALSE)
    \/ /\ IsSome(dep.cfg) => Matched(dep) = Some(TRUE)
       /\ IsSome(dep.feature)
       /\ ~env_contains(env, FeatureVar(Unwrap(dep.feature)))

\* C18: an entry that is gated out, by a target expression that evaluates to
\* false or by its own feature gate, whatever overrides are enabled, is
\* skipped: no library, no error (no missing version, no invalid mode: neither
\* the version nor the mode is looked at), nothing asked of pkg-config or of
\* the registry, and the run goes on with the next entry.
C18_GatedOutSkipped ==
    /\ \A i \in 1..Len(log) :
          GatedOut(deps[i]) =>
              /\ log[i].flow = "continue"
              /\ log[i].err = NoErr
              /\ Untouched(log[i])
              /\ ~log[i].picked /\ ~log[i].mode_read
    /\ \A i \in 1..Len(log) :
          (log[i].flow = "continue" /\ i = Len(log)) => (idx = i + 1 /\ ((result.done /\ ~result.ok) => result.err.tag = "MissingLib"))
    /\ \A k \in DOMAIN libraries : \E i \in 1..Len(log) : log[i].key = k /\ ~GatedOut(deps[i])

\* C18 witness: the target expression matches, the entry's feature is not
\* enabled while its override is, the entry has no plain version and the
\* global mode variable holds no mode; the entry is skipped and the run is
\* past it
C18_Witness ==
    \E i \in 1..Len(log) :
        /\ IsSome(deps[i].cfg) /\ Matched(deps[i]) = Some(TRUE)
        /\ IsSome(deps[i].feature) /\ ~env_contains(env, FeatureVar(Unwrap(deps[i].feature)))
        /\ EnabledOf(deps[i]) # {}
        /\ deps[i].version = None
        /\ env_get(env, new_build_internal(None)) = Some(BadMode)
        /\ log[i].flow = "continue"
        /\ idx > i

====
